---- MODULE Spec2Model ----
(***************************************************************************)
(* Karat master data: the request handlers of the karat controller         *)
(* (createKarat, updateKarat, deleteKarat, permanentDeleteKarat,           *)
(* bulkPermanentDeleteKarats, bulkUpdateKaratStatus, toggleKaratStatus),   *)
(* the KaratMaster schema (setters, validators, pre-save hook, unique      *)
(* index, statics) and the KaratMasterService they call.                   *)
(*                                                                         *)
(* Request fields are JavaScript values: the handlers test them with       *)
(* isNaN, <, >= and convert them with parseFloat and trim, so the model    *)
(* keeps their type (undefined, number, NaN, string, boolean) and computes *)
(* those operations as JavaScript does.  Numbers are integers; strings are *)
(* sequences of one-character strings.                                     *)
(***************************************************************************)
EXTENDS Integers, Sequences, FiniteSets

VARIABLES store, nextId, pending, last

vars == <<store, nextId, pending, last>>

(***************************************************************************)
(* JavaScript values                                                       *)
(***************************************************************************)
Undefined == [t |-> "undefined", n |-> 0, s |-> <<>>]

NaN == [t |-> "nan", n |-> 0, s |-> <<>>]

Num(k) == [t |-> "number", n |-> k, s |-> <<>>]

Str(chars) == [t |-> "string", n |-> 0, s |-> chars]

Bool(b) == [t |-> "boolean", n |-> IF b THEN 1 ELSE 0, s |-> <<>>]

LowerCase == <<"a","b","c","d","e","f","g","h","i","j","k","l","m",
               "n","o","p","q","r","s","t","u","v","w","x","y","z">>

UpperCase == <<"A","B","C","D","E","F","G","H","I","J","K","L","M",
               "N","O","P","Q","R","S","T","U","V","W","X","Y","Z">>

Digits == <<"0","1","2","3","4","5","6","7","8","9">>

IndexIn(seq, c) == IF \E i \in DOMAIN seq : seq[i] = c
                   THEN CHOOSE i \in DOMAIN seq : seq[i] = c
                   ELSE 0

IsDigit(c) == IndexIn(Digits, c) # 0

DigitVal(c) == IndexIn(Digits, c) - 1

\* The UTF-16 code unit of a character (the characters the inputs use).
CharCode(c) ==
    IF c = " " THEN 32
    ELSE IF c = "-" THEN 45
    ELSE IF IsDigit(c) THEN 48 + DigitVal(c)
    ELSE IF IndexIn(UpperCase, c) # 0 THEN 64 + IndexIn(UpperCase, c)
    ELSE IF IndexIn(LowerCase, c) # 0 THEN 96 + IndexIn(LowerCase, c)
    ELSE 127

\* String.prototype.toUpperCase
ToUpperChar(c) == IF IndexIn(LowerCase, c) # 0
                  THEN UpperCase[IndexIn(LowerCase, c)]
                  ELSE c

ToUpperCase(chars) == [i \in DOMAIN chars |-> ToUpperChar(chars[i])]

RECURSIVE TrimStart(_)
TrimStart(chars) == IF chars # <<>> /\ Head(chars) = " "
                    THEN TrimStart(Tail(chars))
                    ELSE chars

RECURSIVE TrimEnd(_)
TrimEnd(chars) == IF chars # <<>> /\ chars[Len(chars)] = " "
                  THEN TrimEnd(SubSeq(chars, 1, Len(chars) - 1))
                  ELSE chars

\* String.prototype.trim
Trim(chars) == TrimEnd(TrimStart(chars))

\* The value of a sequence of decimal digits.
RECURSIVE DigitsValue(_)
DigitsValue(chars) ==
    IF chars = <<>> THEN 0
    ELSE 10 * DigitsValue(SubSeq(chars, 1, Len(chars) - 1))
         + DigitVal(chars[Len(chars)])

AllDigits(chars) == chars # <<>> /\ \A i \in DOMAIN chars : IsDigit(chars[i])

\* The longest prefix of decimal digits.
RECURSIVE DigitPrefix(_)
DigitPrefix(chars) ==
    IF chars # <<>> /\ IsDigit(Head(chars))
    THEN <<Head(chars)>> \o DigitPrefix(Tail(chars))
    ELSE <<>>

\* Number(string): the whole trimmed text must be a numeric literal; the
\* empty text is 0.
StringToNumber(chars) ==
    LET text == Trim(chars) IN
    IF text = <<>> THEN Num(0)
    ELSE IF AllDigits(text) THEN Num(DigitsValue(text))
    ELSE IF Head(text) = "-" /\ AllDigits(Tail(text))
         THEN Num(0 - DigitsValue(Tail(text)))
    ELSE NaN

\* ToNumber, the coercion behind isNaN and the relational operators.
ToNumber(x) ==
    IF x.t = "undefined" THEN NaN
    ELSE IF x.t = "string" THEN StringToNumber(x.s)
    ELSE IF x.t = "boolean" THEN Num(x.n)
    ELSE x

\* The global isNaN(x).
IsNaN(x) == ToNumber(x).t = "nan"

\* The global parseFloat(x): the longest numeric prefix of String(x) after
\* leading white space, NaN when there is none.
ParseFloat(x) ==
    IF x.t = "number" THEN x
    ELSE IF x.t # "string" THEN NaN
    ELSE LET text == TrimStart(x.s)
             neg  == text # <<>> /\ Head(text) = "-"
             body == IF neg THEN Tail(text) ELSE text
             pre  == DigitPrefix(body)
         IN  IF pre = <<>> THEN NaN
             ELSE Num(IF neg THEN 0 - DigitsValue(pre) ELSE DigitsValue(pre))

\* Code-unit order of two strings.
RECURSIVE StrLess(_, _)
StrLess(a, b) ==
    IF b = <<>> THEN FALSE
    ELSE IF a = <<>> THEN TRUE
    ELSE IF CharCode(Head(a)) # CharCode(Head(b))
         THEN CharCode(Head(a)) < CharCode(Head(b))
    ELSE StrLess(Tail(a), Tail(b))

\* a < b: two strings compare by code units, anything else as numbers; a
\* comparison with NaN is false.
JsLess(a, b) ==
    IF a.t = "string" /\ b.t = "string" THEN StrLess(a.s, b.s)
    ELSE LET na == ToNumber(a)
             nb == ToNumber(b)
         IN  na.t = "number" /\ nb.t = "number" /\ na.n < nb.n

JsGreater(a, b) == JsLess(b, a)

\* a >= b
JsGreaterEq(a, b) ==
    IF a.t = "string" /\ b.t = "string" THEN ~StrLess(a.s, b.s)
    ELSE LET na == ToNumber(a)
             nb == ToNumber(b)
         IN  na.t = "number" /\ nb.t = "number" /\ na.n >= nb.n

\* !x
Falsy(x) ==
    \/ x.t = "undefined"
    \/ x.t = "nan"
    \/ x.t = "string" /\ x.s = <<>>
    \/ x.t = "number" /\ x.n = 0
    \/ x.t = "boolean" /\ x.n = 0

(***************************************************************************)
(* Request bodies and stored documents                                     *)
(***************************************************************************)
\* req.body: every field is a JavaScript value, Undefined when not sent.
Body(code, div, desc, purity, min, max, st, act) ==
    [karatCode |-> code, division |-> div, description |-> desc,
     standardPurity |-> purity, minimum |-> min, maximum |-> max,
     status |-> st, isActive |-> act]

NoBody == Body(Undefined, Undefined, Undefined, Undefined, Undefined,
               Undefined, Undefined, Undefined)

MaxCodeLength == 10

MaxDescriptionLength == 200

MaxPurity == 100

StatusEnum == {"active", "inactive"}

\* The document of a stored record as JavaScript values.
AsBody(rec) ==
    Body(Str(rec.karatCode), Str(rec.division), Str(rec.description),
         Num(rec.standardPurity), Num(rec.minimum), Num(rec.maximum),
         Str(<<rec.status>>), Bool(rec.isActive))

\* The schema's setters and defaults: karatCode trimmed and uppercased,
\* description trimmed, numbers cast, isActive true and status "active"
\* unless given.
SchemaCast(doc) ==
    [karatCode      |-> IF doc.karatCode.t = "string"
                        THEN ToUpperCase(Trim(doc.karatCode.s)) ELSE <<>>,
     division       |-> IF doc.division.t = "string" THEN doc.division.s ELSE <<>>,
     description    |-> IF doc.description.t = "string"
                        THEN Trim(doc.description.s) ELSE <<>>,
     standardPurity |-> ToNumber(doc.standardPurity).n,
     minimum        |-> ToNumber(doc.minimum).n,
     maximum        |-> ToNumber(doc.maximum).n,
     isActive       |-> IF doc.isActive.t = "undefined" THEN TRUE
                        ELSE ~Falsy(doc.isActive),
     status         |-> IF doc.status.t = "string" /\ Len(doc.status.s) = 1
                        THEN doc.status.s[1] ELSE "active"]

\* match: /^[A-Z0-9]+$/
MatchesCodePattern(chars) ==
    /\ chars # <<>>
    /\ \A i \in DOMAIN chars :
          IsDigit(chars[i]) \/ IndexIn(UpperCase, chars[i]) # 0

\* The schema's validators (required, maxlength, match, min, max, enum and
\* the cast of the Number paths, which refuses NaN).
SchemaValid(doc) ==
    LET rec == SchemaCast(doc) IN
    /\ rec.karatCode # <<>>
    /\ Len(rec.karatCode) <= MaxCodeLength
    /\ MatchesCodePattern(rec.karatCode)
    /\ rec.division # <<>>
    /\ rec.description # <<>>
    /\ Len(rec.description) <= MaxDescriptionLength
    /\ ToNumber(doc.standardPurity).t = "number"
    /\ rec.standardPurity >= 0
    /\ rec.standardPurity <= MaxPurity
    /\ ToNumber(doc.minimum).t = "number"
    /\ rec.minimum >= 0
    /\ ToNumber(doc.maximum).t = "number"
    /\ rec.maximum >= 0
    /\ doc.status.t = "undefined" \/ rec.status \in StatusEnum

\* The hook without its comparison of minimum and maximum.
PreSaveError_NoRangeCheck(rec) == "none"

\* pre('save'): the error of the hook, "none" when it calls next().
PreSaveError(rec) ==
    IF rec.minimum >= rec.maximum THEN "ValidationError" ELSE "none"

\* The compound index declared without unique: true.
UniqueIndexAllows_NotUnique(st, id, rec) == TRUE

\* The unique compound index {karatCode, division}: whether the store
\* accepts rec as the document of id.
UniqueIndexAllows(st, id, rec) ==
    ~\E other \in DOMAIN st \ {id} :
        /\ st[other].karatCode = rec.karatCode
        /\ st[other].division = rec.division

\* The lookup with the division left out of the query.
isKaratCodeExists_AnyDivision(st, karatCode, divisionId, excludeId) ==
    \E id \in DOMAIN st :
        /\ st[id].karatCode = ToUpperCase(karatCode)
        /\ excludeId # 0 => id # excludeId

\* statics.isKaratCodeExists(karatCode, divisionId, excludeId); excludeId 0
\* is the default null.
isKaratCodeExists(st, karatCode, divisionId, excludeId) ==
    \E id \in DOMAIN st :
        /\ st[id].karatCode = ToUpperCase(karatCode)
        /\ st[id].division = divisionId
        /\ excludeId # 0 => id # excludeId

\* The ids of m in ascending karatCode order.
RECURSIVE SortByCode(_, _)
SortByCode(st, m) ==
    IF m = {} THEN <<>>
    ELSE LET first == CHOOSE id \in m :
                         \A o \in m : ~StrLess(st[o].karatCode, st[id].karatCode)
         IN  <<first>> \o SortByCode(st, m \ {first})

\* The listing with the status and isActive criteria left out of the query.
getByDivision_AnyStatus(st, divisionId) ==
    SortByCode(st, {id \in DOMAIN st : st[id].division = divisionId})

\* statics.getByDivision(divisionId)
getByDivision(st, divisionId) ==
    SortByCode(st, {id \in DOMAIN st :
                       /\ st[id].division = divisionId
                       /\ st[id].status = "active"
                       /\ st[id].isActive = TRUE})

\* document.save() of a new document: validation, the pre-save hook, then
\* the insert under the unique index.
Save(st, id, doc) ==
    LET rec  == SchemaCast(doc)
        hook == PreSaveError(rec)
    IN
    IF ~SchemaValid(doc) THEN [err |-> "ValidationError", store |-> st]
    ELSE IF hook # "none" THEN [err |-> hook, store |-> st]
    ELSE IF ~UniqueIndexAllows(st, id, rec)
         THEN [err |-> "DuplicateKey", store |-> st]
    ELSE [err |-> "none",
          store |-> [i \in DOMAIN st \cup {id} |-> IF i = id THEN rec ELSE st[i]]]

(***************************************************************************)
(* Controller: createKarat, updateKarat                                    *)
(***************************************************************************)
\* The validation of createKarat: the code of the first error thrown,
\* "none" when the request reaches the service.
ControllerCreateError(b) ==
    IF \/ Falsy(b.karatCode)
       \/ Falsy(b.division)
       \/ Falsy(b.description)
       \/ b.standardPurity.t = "undefined"
       \/ b.minimum.t = "undefined"
       \/ b.maximum.t = "undefined"
    THEN "REQUIRED_FIELDS_MISSING"
    ELSE IF IsNaN(b.standardPurity) \/ IsNaN(b.minimum) \/ IsNaN(b.maximum)
    THEN "INVALID_NUMERIC_VALUES"
    ELSE IF JsLess(b.standardPurity, Num(0)) \/ JsGreater(b.standardPurity, Num(100))
    THEN "INVALID_PURITY_RANGE"
    ELSE IF JsLess(b.minimum, Num(0)) \/ JsLess(b.maximum, Num(0))
    THEN "INVALID_VALUE_RANGE"
    ELSE IF JsGreaterEq(b.minimum, b.maximum)
    THEN "INVALID_MIN_MAX_RANGE"
    ELSE "none"

\* karatData of createKarat.
KaratData(b) ==
    Body(Str(Trim(b.karatCode.s)), b.division, Str(Trim(b.description.s)),
         ParseFloat(b.standardPurity), ParseFloat(b.minimum),
         ParseFloat(b.maximum), Undefined, Undefined)

\* The validation of updateKarat, field by field as provided.
ControllerUpdateError(u) ==
    IF u.standardPurity.t # "undefined" /\ IsNaN(u.standardPurity)
    THEN "INVALID_PURITY"
    ELSE IF /\ u.standardPurity.t # "undefined"
            /\ \/ JsLess(u.standardPurity, Num(0))
               \/ JsGreater(u.standardPurity, Num(100))
    THEN "INVALID_PURITY_RANGE"
    ELSE IF /\ u.minimum.t # "undefined"
            /\ IsNaN(u.minimum) \/ JsLess(u.minimum, Num(0))
    THEN "INVALID_MINIMUM"
    ELSE IF /\ u.maximum.t # "undefined"
            /\ IsNaN(u.maximum) \/ JsLess(u.maximum, Num(0))
    THEN "INVALID_MAXIMUM"
    ELSE "none"

\* updateData as updateKarat hands it to the service: numbers through
\* parseFloat, karatCode and description trimmed when truthy, every other
\* field of the body as sent.
ControllerUpdateData(u) ==
    [u EXCEPT
       !.standardPurity = IF @.t # "undefined" THEN ParseFloat(@) ELSE @,
       !.minimum        = IF @.t # "undefined" THEN ParseFloat(@) ELSE @,
       !.maximum        = IF @.t # "undefined" THEN ParseFloat(@) ELSE @,
       !.karatCode      = IF ~Falsy(@) THEN Str(Trim(@.s)) ELSE @,
       !.description    = IF ~Falsy(@) THEN Str(Trim(@.s)) ELSE @]

(***************************************************************************)
(* KaratMasterService                                                      *)
(***************************************************************************)
\* createKarat, before the write: the uniqueness check.
ServiceCreateCheck(st, data) ==
    IF isKaratCodeExists(st, data.karatCode.s, data.division.s, 0)
    THEN "DuplicateCode"
    ELSE "none"

\* The stored document with the provided fields of data laid over it.
Merged(rec, data) ==
    LET cur == AsBody(rec) IN
    [f \in DOMAIN cur |-> IF data[f].t = "undefined" THEN cur[f] ELSE data[f]]

\* The validator comparing minimum and maximum only when both are supplied.
UpdateValidatorError_SuppliedOnly(rec, data) ==
    LET doc == Merged(rec, data) IN
    IF \E f \in {"standardPurity", "minimum", "maximum"} :
          data[f].t # "undefined" /\ IsNaN(data[f])
    THEN "InvalidNumericValue"
    ELSE IF \/ JsLess(doc.standardPurity, Num(0))
            \/ JsGreater(doc.standardPurity, Num(MaxPurity))
    THEN "InvalidPurityRange"
    ELSE IF JsLess(doc.minimum, Num(0)) \/ JsLess(doc.maximum, Num(0))
    THEN "InvalidValueRange"
    ELSE IF /\ data.minimum.t # "undefined"
            /\ data.maximum.t # "undefined"
            /\ JsGreaterEq(data.minimum, data.maximum)
    THEN "InvalidMinMaxRange"
    ELSE "none"

\* The validator in update mode: the provided fields by the per-field
\* rules, then minimum < maximum on the resolved final pair.
UpdateValidatorError(rec, data) ==
    LET doc == Merged(rec, data) IN
    IF \E f \in {"standardPurity", "minimum", "maximum"} :
          data[f].t # "undefined" /\ IsNaN(data[f])
    THEN "InvalidNumericValue"
    ELSE IF \/ JsLess(doc.standardPurity, Num(0))
            \/ JsGreater(doc.standardPurity, Num(MaxPurity))
    THEN "InvalidPurityRange"
    ELSE IF JsLess(doc.minimum, Num(0)) \/ JsLess(doc.maximum, Num(0))
    THEN "InvalidValueRange"
    ELSE IF JsGreaterEq(doc.minimum, doc.maximum)
    THEN "InvalidMinMaxRange"
    ELSE "none"

\* updateKarat, before the write: load, validate the merged values, check
\* uniqueness when the code or the division changes.
ServiceUpdateCheck(st, id, data) ==
    IF id \notin DOMAIN st THEN "NotFound"
    ELSE LET invalid == UpdateValidatorError(st[id], data)
             new     == SchemaCast(Merged(st[id], data))
         IN
         IF invalid # "none" THEN invalid
         ELSE
         IF /\ new.karatCode # st[id].karatCode \/ new.division # st[id].division
            /\ isKaratCodeExists(st, new.karatCode, new.division, id)
         THEN "DuplicateCode"
         ELSE "none"

\* updateKarat, the write: the provided fields are set on the stored
\* document under the schema's validators and the unique index.
ServiceUpdateWrite(st, id, data) ==
    IF id \notin DOMAIN st THEN [err |-> "NotFound", store |-> st]
    ELSE LET doc == Merged(st[id], data)
             rec == SchemaCast(doc)
         IN  IF ~SchemaValid(doc) THEN [err |-> "ValidationError", store |-> st]
             ELSE IF ~UniqueIndexAllows(st, id, rec)
                  THEN [err |-> "DuplicateKey", store |-> st]
             ELSE [err |-> "none", store |-> [st EXCEPT ![id] = rec]]

\* updateKarat as one call.
ServiceUpdateKarat(st, id, data) ==
    LET refused == ServiceUpdateCheck(st, id, data) IN
    IF refused # "none" THEN [err |-> refused, store |-> st]
    ELSE ServiceUpdateWrite(st, id, data)

\* getKaratById: the error of the lookup.
ServiceGetKaratById(st, id) == IF id \in DOMAIN st THEN "none" ELSE "NotFound"

\* deleteKarat (soft delete): the record is kept and marked inactive.
ServiceDeleteKarat(st, id) ==
    IF id \notin DOMAIN st THEN [err |-> "NotFound", store |-> st]
    ELSE [err |-> "none",
          store |-> [st EXCEPT ![id].isActive = FALSE, ![id].status = "inactive"]]

\* permanentDeleteKarat: the record is removed.
ServicePermanentDeleteKarat(st, id) ==
    IF id \notin DOMAIN st THEN [err |-> "NotFound", store |-> st]
    ELSE [err |-> "none", store |-> [i \in DOMAIN st \ {id} |-> st[i]]]

\* bulkPermanentDelete: removes the listed records that exist.
ServiceBulkPermanentDelete(st, ids) ==
    [deletedCount |-> Cardinality(ids \cap DOMAIN st),
     store |-> [i \in DOMAIN st \ ids |-> st[i]]]

\* bulkUpdateStatus: sets status and the active flag of the listed records
\* that exist; matched = found, modified = those whose status changed.
ServiceBulkUpdateStatus(st, ids, status) ==
    LET matched == ids \cap DOMAIN st IN
    [matchedCount  |-> Cardinality(matched),
     modifiedCount |-> Cardinality({i \in matched : st[i].status # status}),
     store |-> [i \in DOMAIN st |->
                  IF i \in matched
                  THEN [st[i] EXCEPT !.status = status,
                                     !.isActive = (status = "active")]
                  ELSE st[i]]]

(***************************************************************************)
(* State                                                                   *)
(*   store    the KaratMaster collection: _id -> stored document           *)
(*   nextId   the next _id the store assigns                               *)
(*   pending  the writes of the requests in flight: checked by the         *)
(*            service, not yet issued to the store                         *)
(*   last     the request handled last and its response                    *)
(***************************************************************************)
MaxId == 2

MaxPending == 2

Ids == 1..MaxId

\* The response record: the handler (op), the error code ("none" on
\* success) and the counts of the bulk results.
Response(op, err, matched, modified, deleted) ==
    [op |-> op, err |-> err, matchedCount |-> matched,
     modifiedCount |-> modified, deletedCount |-> deleted]

Init ==
    /\ store = <<>>
    /\ nextId = 1
    /\ pending = <<>>
    /\ last = Response("init", "none", 0, 0, 0)

\* The import list of the controller holds no mongoose.
MongooseInScope == FALSE

(***************************************************************************)
(* Handlers, each as one step                                              *)
(***************************************************************************)
\* createKarat: validation, uniqueness check, save.
CreateOutcome(st, id, b) ==
    LET rejected  == ControllerCreateError(b)
        karatData == KaratData(b)
        duplicate == ServiceCreateCheck(st, karatData)
    IN  IF rejected # "none" THEN [err |-> rejected, store |-> st]
        ELSE IF duplicate # "none" THEN [err |-> duplicate, store |-> st]
        ELSE Save(st, id, karatData)

CreateKarat(b) ==
    \E out \in {CreateOutcome(store, nextId, b)} :
    /\ out.err # "none" \/ nextId <= MaxId
    /\ store' = out.store
    /\ nextId' = IF out.err = "none" THEN nextId + 1 ELSE nextId
    /\ last' = Response("create", out.err, 0, 0, 0)
    /\ UNCHANGED pending

\* updateKarat: validation of the provided fields, then the service.
UpdateOutcome(st, id, u) ==
    LET rejected == ControllerUpdateError(u) IN
    IF rejected # "none" THEN [err |-> rejected, store |-> st]
    ELSE ServiceUpdateKarat(st, id, ControllerUpdateData(u))

UpdateKarat(id, u) ==
    \E out \in {UpdateOutcome(store, id, u)} :
    /\ store' = out.store
    /\ last' = Response("update", out.err, 0, 0, 0)
    /\ UNCHANGED <<nextId, pending>>

\* toggleKaratStatus: reads the record, then updates status and isActive.
ToggleOutcome(st, id) ==
    IF ServiceGetKaratById(st, id) # "none"
    THEN [err |-> ServiceGetKaratById(st, id), store |-> st]
    ELSE LET newStatus == IF st[id].status = "active" THEN "inactive" ELSE "active"
         IN  ServiceUpdateKarat(st, id,
                 [NoBody EXCEPT !.status = Str(<<newStatus>>),
                                !.isActive = Bool(newStatus = "active")])

ToggleKaratStatus(id) ==
    \E out \in {ToggleOutcome(store, id)} :
    /\ store' = out.store
    /\ last' = Response("toggle", out.err, 0, 0, 0)
    /\ UNCHANGED <<nextId, pending>>

\* deleteKarat (soft delete)
DeleteKarat(id) ==
    \E out \in {ServiceDeleteKarat(store, id)} :
    /\ store' = out.store
    /\ last' = Response("softDelete", out.err, 0, 0, 0)
    /\ UNCHANGED <<nextId, pending>>

\* permanentDeleteKarat (hard delete)
PermanentDeleteKarat(id) ==
    \E out \in {ServicePermanentDeleteKarat(store, id)} :
    /\ store' = out.store
    /\ last' = Response("hardDelete", out.err, 0, 0, 0)
    /\ UNCHANGED <<nextId, pending>>

\* bulkPermanentDeleteKarats: listed is whether req.body.ids is an array,
\* ids its elements (well-formed ObjectIds).  The id check calls
\* mongoose.Types.ObjectId.isValid for each element.
BulkPermanentDeleteOutcome(st, listed, ids) ==
    IF ~listed \/ ids = {}
    THEN [err |-> "IDS_REQUIRED", deletedCount |-> 0, store |-> st]
    ELSE IF ~MongooseInScope
    THEN [err |-> "ReferenceError", deletedCount |-> 0, store |-> st]
    ELSE LET result == ServiceBulkPermanentDelete(st, ids) IN
         [err |-> "none", deletedCount |-> result.deletedCount,
          store |-> result.store]

BulkPermanentDeleteKarats(listed, ids) ==
    \E out \in {BulkPermanentDeleteOutcome(store, listed, ids)} :
    /\ store' = out.store
    /\ last' = Response("bulkHardDelete", out.err, 0, 0, out.deletedCount)
    /\ UNCHANGED <<nextId, pending>>

\* The handler accepting any status that is sent.
BulkUpdateStatusOutcome_AnyStatus(st, listed, ids, status) ==
    IF ~listed \/ ids = {}
    THEN [err |-> "IDS_REQUIRED", matchedCount |-> 0, modifiedCount |-> 0,
          store |-> st]
    ELSE IF Falsy(status)
    THEN [err |-> "INVALID_STATUS", matchedCount |-> 0, modifiedCount |-> 0,
          store |-> st]
    ELSE LET result == ServiceBulkUpdateStatus(st, ids, status.s[1]) IN
         [err |-> "none", matchedCount |-> result.matchedCount,
          modifiedCount |-> result.modifiedCount, store |-> result.store]

\* bulkUpdateKaratStatus: status is req.body.status.
BulkUpdateStatusOutcome(st, listed, ids, status) ==
    IF ~listed \/ ids = {}
    THEN [err |-> "IDS_REQUIRED", matchedCount |-> 0, modifiedCount |-> 0,
          store |-> st]
    ELSE IF Falsy(status) \/ status \notin {Str(<<"active">>), Str(<<"inactive">>)}
    THEN [err |-> "INVALID_STATUS", matchedCount |-> 0, modifiedCount |-> 0,
          store |-> st]
    ELSE LET result == ServiceBulkUpdateStatus(st, ids, status.s[1]) IN
         [err |-> "none", matchedCount |-> result.matchedCount,
          modifiedCount |-> result.modifiedCount, store |-> result.store]

BulkUpdateKaratStatus(listed, ids, status) ==
    \E out \in {BulkUpdateStatusOutcome(store, listed, ids, status)} :
    /\ store' = out.store
    /\ last' = Response("bulkUpdateStatus", out.err, out.matchedCount,
                        out.modifiedCount, 0)
    /\ UNCHANGED <<nextId, pending>>

(***************************************************************************)
(* createKarat and updateKarat as two steps: the handler awaits the        *)
(* service's checks, other requests run, then it awaits the write.         *)
(***************************************************************************)
CreateBegin(b) ==
    LET err == IF ControllerCreateError(b) # "none"
               THEN ControllerCreateError(b)
               ELSE ServiceCreateCheck(store, KaratData(b))
    IN
    /\ Len(pending) < MaxPending
    /\ pending' = IF err = "none"
                  THEN Append(pending,
                          [kind |-> "create", id |-> 0, data |-> KaratData(b)])
                  ELSE pending
    /\ last' = Response("createBegin", err, 0, 0, 0)
    /\ UNCHANGED <<store, nextId>>

\* The sequence without its element w.
Remove(seq, w) == SubSeq(seq, 1, w - 1) \o SubSeq(seq, w + 1, Len(seq))

CreateCommit(w) ==
    \E out \in {Save(store, nextId, pending[w].data)} :
    /\ pending[w].kind = "create"
    /\ out.err # "none" \/ nextId <= MaxId
    /\ store' = out.store
    /\ nextId' = IF out.err = "none" THEN nextId + 1 ELSE nextId
    /\ pending' = Remove(pending, w)
    /\ last' = Response("createCommit", out.err, 0, 0, 0)

UpdateBegin(id, u) ==
    LET err == IF ControllerUpdateError(u) # "none"
               THEN ControllerUpdateError(u)
               ELSE ServiceUpdateCheck(store, id, ControllerUpdateData(u))
    IN
    /\ Len(pending) < MaxPending
    /\ pending' = IF err = "none"
                  THEN Append(pending,
                          [kind |-> "update", id |-> id,
                           data |-> ControllerUpdateData(u)])
                  ELSE pending
    /\ last' = Response("updateBegin", err, 0, 0, 0)
    /\ UNCHANGED <<store, nextId>>

UpdateCommit(w) ==
    \E out \in {ServiceUpdateWrite(store, pending[w].id, pending[w].data)} :
    /\ pending[w].kind = "update"
    /\ store' = out.store
    /\ pending' = Remove(pending, w)
    /\ last' = Response("updateCommit", out.err, 0, 0, 0)
    /\ UNCHANGED nextId

(***************************************************************************)
(* Requests                                                                *)
(***************************************************************************)
\* Division ids and status words are one-symbol strings.
Divisions == {Str(<<"D1">>), Str(<<"D2">>)}

Gold == Str(<<"g","o","l","d">>)

\* "K18", " k18 ", "K24" and "k-1" (refused by the schema's match).
CodeInputs ==
    {Str(<<"K","1","8">>), Str(<<" ","k","1","8"," ">>),
     Str(<<"K","2","4">>), Str(<<"k","-","1">>)}

\* Bodies of create with correct numbers: every code in every division,
\* and bodies lacking the code, the division or the description.
CreateBodies ==
    {Body(c, d, Gold, Num(75), Num(74), Num(76), Undefined, Undefined) :
        c \in CodeInputs, d \in Divisions}
    \cup {Body(c, Str(<<"D1">>), Gold, Num(75), Num(74), Num(76),
               Undefined, Undefined) : c \in {Undefined, Str(<<>>)}}
    \cup {Body(Str(<<"K","1","8">>), Undefined, Gold, Num(75), Num(74), Num(76),
               Undefined, Undefined),
          Body(Str(<<"K","1","8">>), Str(<<"D1">>), Undefined, Num(75), Num(74),
               Num(76), Undefined, Undefined)}

StatusInputs == {Str(<<"active">>), Str(<<"inactive">>), Str(<<"archived">>)}

\* Partial bodies of update: the code, the division, status, isActive, or
\* status and isActive together.
UpdateBodies ==
    {[NoBody EXCEPT !.karatCode = c] :
        c \in {Str(<<"k","1","8">>), Str(<<"K","2","4">>)}}
    \cup {[NoBody EXCEPT !.division = d] : d \in Divisions}
    \cup {[NoBody EXCEPT !.status = s] : s \in StatusInputs}
    \cup {[NoBody EXCEPT !.isActive = Bool(a)] : a \in BOOLEAN}
    \cup {[NoBody EXCEPT !.status = s, !.isActive = Bool(FALSE)] :
             s \in {Str(<<"active">>), Str(<<"inactive">>)}}

\* Values sent for standardPurity: absent, -1, 100, 101, "abc".
PurityInputs ==
    {Undefined, Num(0 - 1), Num(100), Num(101), Str(<<"a","b","c">>)}

\* Values sent for minimum and maximum: absent, -1, 2, 10, "9", "10",
\* "abc" (a JSON body carries numbers, a urlencoded one strings).
RangeInputs ==
    {Undefined, Num(0 - 1), Num(2), Num(10), Str(<<"9">>), Str(<<"1","0">>),
     Str(<<"a","b","c">>)}

\* Bodies of create that vary the numbers.
ValidationCreateBodies ==
    {Body(c, Str(<<"D1">>), Gold, p, Num(2), Num(10), Undefined, Undefined) :
        c \in {Str(<<"K","1","8">>)}, p \in PurityInputs}
    \cup {Body(c, Str(<<"D1">>), Gold, Num(100), mn, mx, Undefined, Undefined) :
             c \in {Str(<<"K","1","8">>), Str(<<"K","2","4">>)},
             mn \in RangeInputs, mx \in RangeInputs}

\* Partial bodies of update that vary the numbers: one of them, or minimum
\* and maximum together.
ValidationUpdateBodies ==
    {[NoBody EXCEPT !.standardPurity = p] : p \in PurityInputs \ {Undefined}}
    \cup {[NoBody EXCEPT !.minimum = mn, !.maximum = mx] :
             mn \in RangeInputs, mx \in RangeInputs}

\* Bodies of concurrent creates and updates: one code in two spellings.
RaceCreateBodies ==
    {Body(c, d, Gold, Num(75), Num(74), Num(76), Undefined, Undefined) :
        c \in {Str(<<"k","1","8">>), Str(<<"K","1","8">>)}, d \in Divisions}

RaceUpdateBodies == {[NoBody EXCEPT !.division = d] : d \in Divisions}

BulkStatusInputs == StatusInputs \cup {Undefined}

\* Bodies of bulkUpdateKaratStatus: every id list with a status of the
\* enum, the full list with another status or none, and no list at all.
BulkStatusBodies ==
    {[listed |-> TRUE, ids |-> ids, status |-> s] :
        ids \in SUBSET Ids, s \in {Str(<<"active">>), Str(<<"inactive">>)}}
    \cup {[listed |-> TRUE, ids |-> Ids, status |-> s] :
             s \in {Str(<<"archived">>), Undefined}}
    \cup {[listed |-> FALSE, ids |-> {}, status |-> Str(<<"active">>)]}

(***************************************************************************)
(* Specifications                                                          *)
(***************************************************************************)
\* Every handler as one step.
Next ==
    \/ \E b \in CreateBodies : CreateKarat(b)
    \/ \E id \in Ids, u \in UpdateBodies : UpdateKarat(id, u)
    \/ \E id \in Ids : ToggleKaratStatus(id)
    \/ \E id \in Ids : DeleteKarat(id)
    \/ \E id \in Ids : PermanentDeleteKarat(id)
    \/ \E listed \in BOOLEAN, ids \in SUBSET Ids :
          (listed \/ ids = {}) /\ BulkPermanentDeleteKarats(listed, ids)
    \/ \E r \in BulkStatusBodies :
          BulkUpdateKaratStatus(r.listed, r.ids, r.status)

Spec == Init /\ [][Next]_vars

\* create and update, in any order, over the numeric inputs.
NextValidation ==
    \/ \E b \in ValidationCreateBodies : CreateKarat(b)
    \/ \E id \in Ids, u \in ValidationUpdateBodies : UpdateKarat(id, u)

SpecValidation == Init /\ [][NextValidation]_vars

\* Concurrent requests: create and update in two steps each, interleaved
\* with each other and with the other handlers.
NextRace ==
    \/ \E b \in RaceCreateBodies : CreateBegin(b)
    \/ \E w \in DOMAIN pending : CreateCommit(w)
    \/ \E id \in Ids, u \in RaceUpdateBodies : UpdateBegin(id, u)
    \/ \E w \in DOMAIN pending : UpdateCommit(w)
    \/ \E id \in Ids : ToggleKaratStatus(id)
    \/ \E id \in Ids : DeleteKarat(id)
    \/ \E id \in Ids : PermanentDeleteKarat(id)
    \/ \E listed \in BOOLEAN, ids \in SUBSET Ids :
          (listed \/ ids = {}) /\ BulkPermanentDeleteKarats(listed, ids)
    \/ \E r \in BulkStatusBodies :
          BulkUpdateKaratStatus(r.listed, r.ids, r.status)

SpecRace == Init /\ [][NextRace]_vars

(***************************************************************************)
(* Properties                                                              *)
(***************************************************************************)
\* The failure kind a controller error code stands for.
Kind(err) ==
    CASE err = "REQUIRED_FIELDS_MISSING" -> "RequiredFieldsMissing"
      [] err = "INVALID_NUMERIC_VALUES"  -> "InvalidNumericValue"
      [] err = "INVALID_PURITY_RANGE"    -> "InvalidPurityRange"
      [] err = "INVALID_VALUE_RANGE"     -> "InvalidValueRange"
      [] err = "INVALID_MIN_MAX_RANGE"   -> "InvalidMinMaxRange"
      [] err = "INVALID_PURITY"          -> "InvalidPurity"
      [] err = "INVALID_MINIMUM"         -> "InvalidMinimum"
      [] err = "INVALID_MAXIMUM"         -> "InvalidMaximum"
      [] err = "IDS_REQUIRED"            -> "IdsRequired"
      [] err = "INVALID_STATUS"          -> "InvalidStatus"
      [] OTHER                           -> err

Range(seq) == {seq[i] : i \in DOMAIN seq}

\* Whether a request field is a number or the text of one (the empty text
\* is none), and the number it stands for.
IsNumber(x) ==
    \/ x.t = "number"
    \/ x.t = "string" /\ Trim(x.s) # <<>> /\ StringToNumber(x.s).t = "number"

Value(x) == ToNumber(x).n

\* C1: no two stored records have the same (uppercased code, division).
C1_UniqueCodePerDivision ==
    \A i \in DOMAIN store : \A j \in DOMAIN store :
        i # j =>
            ~(/\ ToUpperCase(store[i].karatCode) = ToUpperCase(store[j].karatCode)
              /\ store[i].division = store[j].division)

\* Two requests passed the application's check for the same pair, one
\* wrote, and the store refused the write of the other.
C1_Witness ==
    /\ last.op \in {"createCommit", "updateCommit"}
    /\ last.err = "DuplicateKey"
    /\ DOMAIN store # {}

\* The numbers a record may hold.
RecordInRange(rec) ==
    /\ rec.minimum < rec.maximum
    /\ 0 <= rec.standardPurity
    /\ rec.standardPurity <= 100
    /\ rec.minimum >= 0
    /\ rec.maximum >= 0

\* Whether the numbers sent (purity, min, max) would make a record that
\* breaks one of the rules.
WouldViolate(p, mn, mx) ==
    \/ ~IsNumber(p) \/ ~IsNumber(mn) \/ ~IsNumber(mx)
    \/ Value(p) < 0 \/ Value(p) > 100
    \/ Value(mn) < 0 \/ Value(mx) < 0
    \/ Value(mn) >= Value(mx)

\* C2: every stored record has minimum < maximum, 0 <= standardPurity <=
\* 100, minimum >= 0 and maximum >= 0; a create or an update whose resulting
\* record would break one of these is rejected and writes nothing, and so
\* does every other rejected create or update.
C2_RecordsStayInRange ==
    /\ \A id \in DOMAIN store : RecordInRange(store[id])
    /\ \A b \in ValidationCreateBodies :
          \E out \in {CreateOutcome(store, nextId, b)} :
             /\ WouldViolate(b.standardPurity, b.minimum, b.maximum)
                   => out.err # "none"
             /\ out.err # "none" => out.store = store
    /\ \A id \in DOMAIN store : \A u \in ValidationUpdateBodies :
          \E out \in {UpdateOutcome(store, id, u)} :
          \E doc \in {Merged(store[id], u)} :
             /\ WouldViolate(doc.standardPurity, doc.minimum, doc.maximum)
                   => out.err # "none"
             /\ out.err # "none" => out.store = store

\* A partial update was accepted and changed the minimum of a record.
C2_Witness ==
    /\ last.op = "update"
    /\ last.err = "none"
    /\ \E id \in DOMAIN store : store[id].minimum = 9 /\ store[id].maximum = 10

OnlyMinimum(u) ==
    /\ u.minimum.t # "undefined"
    /\ [u EXCEPT !.minimum = Undefined] = NoBody

OnlyMaximum(u) ==
    /\ u.maximum.t # "undefined"
    /\ [u EXCEPT !.maximum = Undefined] = NoBody

C4_StatusMatchesActive ==
    \A id \in DOMAIN store :
        (store[id].status = "active") <=> (store[id].isActive = TRUE)


\* Whether a body carries everything create asks for, in range, under a
\* code the schema accepts.
WellFormedCreate(b) ==
    /\ ~Falsy(b.karatCode) /\ ~Falsy(b.division) /\ ~Falsy(b.description)
    /\ ~WouldViolate(b.standardPurity, b.minimum, b.maximum)
    /\ MatchesCodePattern(ToUpperCase(Trim(b.karatCode.s)))

WellFormedCreateBodies == {b \in CreateBodies : WellFormedCreate(b)}

\* The ids of the records of division d stored under code (case ignored).
SameCode(st, code, d) ==
    {id \in DOMAIN st :
        /\ ToUpperCase(st[id].karatCode) = ToUpperCase(Trim(code))
        /\ st[id].division = d}

\* C5: a create whose code, trimmed and compared without case, is the code
\* of a record stored in the same division fails with DuplicateCode and
\* leaves the store unchanged; a create with the code of a record of another
\* division only succeeds and adds one record, under the uppercase code.
C5_DuplicateCodePerDivision ==
    \A b \in WellFormedCreateBodies :
       \E out \in {CreateOutcome(store, nextId, b)} :
       \E here \in {SameCode(store, b.karatCode.s, b.division.s)} :
             /\ here # {}
                   => out.err = "DuplicateCode" /\ out.store = store
             /\ (/\ here = {}
                 /\ \E d \in Divisions : SameCode(store, b.karatCode.s, d.s) # {})
                   => /\ out.err = "none"
                      /\ DOMAIN out.store = DOMAIN store \cup {nextId}
                      /\ nextId \notin DOMAIN store
                      /\ \A id \in DOMAIN store : out.store[id] = store[id]
                      /\ out.store[nextId].karatCode
                            = ToUpperCase(Trim(b.karatCode.s))
                      /\ out.store[nextId].division = b.division.s

\* A create was refused as a duplicate while the same code is stored in two
\* divisions.
C5_Witness ==
    /\ last.op = "create"
    /\ last.err = "DuplicateCode"
    /\ \E i \in DOMAIN store : \E j \in DOMAIN store :
          /\ store[i].karatCode = store[j].karatCode
          /\ store[i].division # store[j].division

Flip(status) == IF status = "active" THEN "inactive" ELSE "active"

\* C6: toggleStatus turns an active record inactive with isActive false and
\* an inactive one active with isActive true, changes no other record, and
\* a second toggleStatus on the record gives back the status and the active
\* flag it had.
C6_ToggleRoundTrip ==
    [][\A id \in Ids :
          (id \in DOMAIN store /\ ToggleKaratStatus(id)) =>
             /\ last'.err = "none"
             /\ DOMAIN store' = DOMAIN store
             /\ store'[id].status = Flip(store[id].status)
             /\ store'[id].isActive = (store'[id].status = "active")
             /\ \A o \in DOMAIN store \ {id} : store'[o] = store[o]
             /\ \E back \in {ToggleOutcome(store', id)} :
                   /\ back.err = "none"
                   /\ back.store[id].status = store[id].status
                   /\ back.store[id].isActive = store[id].isActive]_vars

\* C7: bulkHardDelete of a non-empty list of well-formed ids raises no
\* error, removes exactly the listed records, leaves the others unchanged
\* and returns the number of listed ids that existed.
C7_BulkHardDeleteCounts ==
    [][\A ids \in (SUBSET Ids) \ {{}} :
          BulkPermanentDeleteKarats(TRUE, ids) =>
             /\ last'.err = "none"
             /\ last'.deletedCount = Cardinality(ids \cap DOMAIN store)
             /\ DOMAIN store' = DOMAIN store \ ids
             /\ \A o \in DOMAIN store' : store'[o] = store[o]]_vars

C9_ListingAndDeletes ==
    /\ \A d \in Divisions :
          /\ Range(getByDivision(store, d.s)) =
                {id \in DOMAIN store : /\ store[id].division = d.s
                                       /\ store[id].status = "active"
                                       /\ store[id].isActive}
          /\ Len(getByDivision(store, d.s)) =
                Cardinality(Range(getByDivision(store, d.s)))
    /\ \A id \in DOMAIN store :
          \E out \in {ServiceDeleteKarat(store, id)} :
             /\ out.err = "none"
             /\ id \in DOMAIN out.store
             /\ \A d \in Divisions : id \notin Range(getByDivision(out.store, d.s))
             /\ ServiceGetKaratById(out.store, id) = "none"
    /\ \A id \in DOMAIN store :
          \E out \in {ServicePermanentDeleteKarat(store, id)} :
             /\ out.err = "none"
             /\ id \notin DOMAIN out.store
             /\ ServiceGetKaratById(out.store, id) = "NotFound"

\* A listed record was soft-deleted: it is stored and no longer listed,
\* while another record of its division still is.
C9_Witness ==
    /\ last.op = "softDelete"
    /\ last.err = "none"
    /\ \E id \in DOMAIN store :
          /\ store[id].status = "inactive"
          /\ ~store[id].isActive
          /\ id \notin Range(getByDivision(store, store[id].division))
          /\ getByDivision(store, store[id].division) # <<>>

\* The first rule of create that a body breaks, in the order of the
\* checks; "none" when it breaks none.
FirstViolatedRule(b) ==
    IF \/ Falsy(b.karatCode) \/ Falsy(b.division) \/ Falsy(b.description)
       \/ b.standardPurity.t = "undefined"
       \/ b.minimum.t = "undefined"
       \/ b.maximum.t = "undefined"
    THEN "RequiredFieldsMissing"
    ELSE IF ~IsNumber(b.standardPurity) \/ ~IsNumber(b.minimum) \/ ~IsNumber(b.maximum)
    THEN "InvalidNumericValue"
    ELSE IF Value(b.standardPurity) < 0 \/ Value(b.standardPurity) > 100
    THEN "InvalidPurityRange"
    ELSE IF Value(b.minimum) < 0 \/ Value(b.maximum) < 0
    THEN "InvalidValueRange"
    ELSE IF Value(b.minimum) >= Value(b.maximum)
    THEN "InvalidMinMaxRange"
    ELSE "none"

\* C10: create fails with the first rule its body breaks, in the order
\* RequiredFieldsMissing, InvalidNumericValue, InvalidPurityRange,
\* InvalidValueRange, InvalidMinMaxRange, and the store is not changed.
C10_FirstViolatedRule ==
    [][\A b \in ValidationCreateBodies :
          CreateKarat(b) =>
             (FirstViolatedRule(b) # "none"
                => Kind(last'.err) = FirstViolatedRule(b) /\ store' = store)]_vars

====
